---- MODULE Spec2Model ----
(***************************************************************************)
(* Model of the asynchronous batch runner 04_Mortgage_Services.py:         *)
(* amain launches one process_row task per worksheet row; each row task    *)
(* takes a slot of a counting semaphore, starts two call_agent tasks       *)
(* (onshore / offshore) that go through _async_retry, and gathers them;    *)
(* amain collects the row results with as_completed, joins them            *)
(* column-wise to the input table and writes the output worksheet.         *)
(*                                                                         *)
(* One action is one run of a coroutine between two suspension points of   *)
(* the single-threaded event loop.                                         *)
(***************************************************************************)
EXTENDS Integers, Sequences, FiniteSets, TLC

\* ------------------------------------------------------------------ bounds
MaxRows == 2
MaxRetries == 1
MaxConc == 2
\* np.random.random() is sampled at u / RandSteps, u in 0 .. RandSteps - 1.
RandSteps == 3
\* The largest --retries of the specification of a single row's calls.
MaxBackoffRetries == 6

\* ------------------------------------------------------- program constants
SuccessCode == 0
\* Variants of the two error codes that report success.
InputErrorCodeZero == SuccessCode
WriteErrorCodeZero == SuccessCode
InputErrorCode == 2
WriteErrorCode == 2
MinConcurrency == 1
\* call_agent's base_delay and _async_retry's default max_delay, in seconds;
\* the default jitter is 1 / JitterDen.
BaseDelay == 1
MaxDelay == 15
JitterDen == 4

Rows == 1..MaxRows
Branches == {"on", "off"}
Calls == Rows \X Branches

\* Python's None for --limit, and the return code while amain has not
\* returned; a value that is set is a one-element tuple.
NoLimit == << >>
NoCode == << >>

\* The values of --limit tried: none, or a number of rows.
Limits == {NoLimit} \cup { << l >> : l \in 0..MaxRows }

Other(b) == IF b = "on" THEN "off" ELSE "on"

\* The attributes process_row reads from final_output, in the order of the
\* result dictionary.
Attrs ==
  << "high_scenario", "medium_scenario", "low_scenario",
     "high_scenario_reasoning", "medium_scenario_reasoning",
     "low_scenario_reasoning", "online_coursework" >>

AttrSet == { Attrs[j] : j \in 1..Len(Attrs) }

\* The keys of the result dictionary, each with the call and the attribute
\* it is read from.
ResultColumns ==
  << [col |-> "Onshore_High_Scenario_Vectors",      branch |-> "on",  attr |-> "high_scenario"],
     [col |-> "Onshore_Medium_Scenario_Vectors",    branch |-> "on",  attr |-> "medium_scenario"],
     [col |-> "Onshore_Low_Scenario_Vectors",       branch |-> "on",  attr |-> "low_scenario"],
     [col |-> "Onshore_High_Scenario_Reasoning",    branch |-> "on",  attr |-> "high_scenario_reasoning"],
     [col |-> "Onshore_Medium_Scenario_Reasoning",  branch |-> "on",  attr |-> "medium_scenario_reasoning"],
     [col |-> "Onshore_Low_Scenario_Reasoning",     branch |-> "on",  attr |-> "low_scenario_reasoning"],
     [col |-> "Onshore_CourseWork",                 branch |-> "on",  attr |-> "online_coursework"],
     [col |-> "Offshore_High_Scenario_Vectors",     branch |-> "off", attr |-> "high_scenario"],
     [col |-> "Offshore_Medium_Scenario_Vectors",   branch |-> "off", attr |-> "medium_scenario"],
     [col |-> "Offshore_Low_Scenario_Vectors",      branch |-> "off", attr |-> "low_scenario"],
     [col |-> "Offshore_High_Scenario_Reasoning",   branch |-> "off", attr |-> "high_scenario_reasoning"],
     [col |-> "Offshore_Medium_Scenario_Reasoning", branch |-> "off", attr |-> "medium_scenario_reasoning"],
     [col |-> "Offshore_Low_Scenario_Reasoning",    branch |-> "off", attr |-> "low_scenario_reasoning"],
     [col |-> "Offshore_CourseWork",                branch |-> "off", attr |-> "online_coursework"] >>

ColumnNames == { ResultColumns[j].col : j \in 1..Len(ResultColumns) }

ColumnSpec(c) == CHOOSE e \in { ResultColumns[j] : j \in 1..Len(ResultColumns) } : e.col = c

\* Python's None in a result cell.
Null == << >>

\* The keys amain lists for the record of a failed row.
FailedRowKeys ==
  << "Onshore_High_Scenario_Vectors", "Onshore_Medium_Scenario_Vectors", "Onshore_Low_Scenario_Vectors",
     "Onshore_High_Scenario_Reasoning", "Onshore_Medium_Scenario_Reasoning", "Onshore_Low_Scenario_Reasoning",
     "Onshore_CourseWork", "Offshore_High_Scenario_Vectors", "Offshore_Medium_Scenario_Vectors",
     "Offshore_Low_Scenario_Vectors", "Offshore_High_Scenario_Reasoning", "Offshore_Medium_Scenario_Reasoning",
     "Offshore_Low_Scenario_Reasoning", "Offshore_CourseWork" >>

\* Variant of NullRecord that lists the onshore keys only.
NullRecordOnshoreOnly ==
  [c \in { FailedRowKeys[j] : j \in 1..7 } |-> Null]

\* The record amain substitutes for a failed row.
NullRecord == [c \in { FailedRowKeys[j] : j \in 1..Len(FailedRowKeys) } |-> Null]

\* ------------------------------------------------- objects a call returns
\* What Runner.run hands back for the query of row `src`, call `branch`:
\* an object that may or may not have a final_output, whose final_output
\* has the attributes in `fields`.
NoObject == [has_final |-> FALSE, fields |-> {}, src |-> 0, branch |-> "none"]

Shapes ==
  { [has_final |-> TRUE,  fields |-> AttrSet],
    [has_final |-> TRUE,  fields |-> AttrSet \ {"online_coursework"}],
    [has_final |-> FALSE, fields |-> {}] }

ReturnedObject(i, b, shape) ==
  [has_final |-> shape.has_final, fields |-> shape.fields, src |-> i, branch |-> b]

\* Variant of _safe that gives None for every attribute of an object that
\* lacks any of them.
_safeAllOrNothing(o, attr) ==
  IF o.has_final /\ o.fields = AttrSet THEN << o.src, o.branch, attr >> ELSE Null

\* getattr(o.final_output, attr), None when anything is missing.
_safe(o, attr) ==
  IF o.has_final /\ attr \in o.fields THEN << o.src, o.branch, attr >> ELSE Null

\* The dictionary process_row returns from the two returned objects.
BuildRecord(on, off) ==
  [c \in ColumnNames |->
     _safe(IF ColumnSpec(c).branch = "on" THEN on ELSE off, ColumnSpec(c).attr)]

\* ------------------------------------------------------------------ state
VARIABLES
  args,        \* the parsed command line: max_concurrency and retries
  deps_ok,     \* Runner and q_a_agent were imported
  main_pc,     \* amain: "start", "collect", "returned", "raised"
  ret,         \* amain's return code
  n,           \* len(df) after the optional limit
  max_conc,    \* the size the semaphore was created with
  sem_value,   \* sem._value
  sem_waiters, \* sem._waiters, FIFO
  row,         \* the process_row tasks
  call,        \* the call_agent tasks
  done_q,      \* as_completed's queue of finished row tasks
  results,     \* amain's results list
  completed,   \* amain's completed counter
  progress,    \* the progress messages logged, as completed/total pairs
  output,      \* the output worksheet
  loop_closed, \* asyncio.run has shut the event loop down
  df,          \* the input table after normalisation, derived columns and limit
  fs           \* what the file system answered: the input, os.makedirs, the write

vars == << args, deps_ok, main_pc, ret, n, max_conc, sem_value, sem_waiters,
           row, call, done_q, results, completed, progress, output, loop_closed, fs, df >>

\* A process_row task. pc: "none" (no such row), "created", "waiting" (in
\* sem.acquire), "woken" (its waiter future was resolved), "gather" (inside
\* the semaphore, awaiting both calls), "done". kind: how it ended, "ok"
\* with rec or "exc". unfinished_at_release records, for the analysis, the
\* calls of the row that had not finished when it left the semaphore.
NoRow == [pc |-> "none", kind |-> "none", rec |-> NullRecord, unfinished_at_release |-> {}]

\* A call_agent task. pc: "none", "created", "calling" (awaiting
\* Runner.run), "sleeping" (awaiting asyncio.sleep), "returned", "raised",
\* "cancelled". attempt and exc are _async_retry's attempt and last_exc;
\* calls, sleeps, warnings and errors count coro_factory invocations,
\* backoff waits and log records. sleep_for is the wait in progress, in
\* TicksPerSecond-ths of a second.
NoCall ==
  [pc |-> "none", attempt |-> 0, calls |-> 0, sleeps |-> 0,
   warnings |-> 0, errors |-> 0, exc |-> << >>, out |-> NoObject, sleep_for |-> 0]

NoOutput == [written |-> FALSE, columns |-> {}, rows |-> << >>]

NoFrame == [headers |-> {}, rows |-> << >>]

Init ==
  /\ args \in [max_concurrency : (-1)..MaxConc, retries : 0..MaxRetries]
  /\ deps_ok \in BOOLEAN
  /\ main_pc = "start"
  /\ ret = NoCode
  /\ n = 0
  /\ max_conc = 0
  /\ sem_value = 0
  /\ sem_waiters = << >>
  /\ row = [i \in Rows |-> NoRow]
  /\ call = [c \in Calls |-> NoCall]
  /\ done_q = << >>
  /\ results = << >>
  /\ completed = 0
  /\ progress = << >>
  /\ output = NoOutput
  /\ loop_closed = FALSE
  /\ fs = [input |-> "unknown", dir |-> "unknown", write |-> "unknown"]
  /\ df = NoFrame

\* ------------------------------------------------------------ the semaphore
Max(a, b) == IF a >= b THEN a ELSE b
Min(a, b) == IF a <= b THEN a ELSE b

\* Variant of GateSize that takes the configured value as it is.
GateSizeRaw(max_concurrency) == max_concurrency

\* max_conc = max(1, int(args.max_concurrency))
GateSize(max_concurrency) == Max(MinConcurrency, max_concurrency)

\* Variant of Locked that never finds the semaphore locked.
LockedNever(value, waiters) == FALSE

\* Semaphore.locked(): no free slot, or somebody is already queued.
Locked(value, waiters) == value = 0 \/ waiters # << >>

\* The positions of the queued row tasks whose waiter future is unresolved.
Pending(waiters, rows) == { j \in 1..Len(waiters) : rows[waiters[j]].pc = "waiting" }

FirstPending(waiters, rows) ==
  CHOOSE j \in Pending(waiters, rows) : \A k \in Pending(waiters, rows) : j <= k

\* Variant of WakeUpNext that wakes the task without taking the slot for it.
WakeUpNextKeepsValue(value, waiters, rows) ==
  IF Pending(waiters, rows) = {}
    THEN [value |-> value, rows |-> rows]
    ELSE [value |-> value,
          rows  |-> [rows EXCEPT ![waiters[FirstPending(waiters, rows)]].pc = "woken"]]

\* Variant of WakeUpNext that wakes nobody.
WakeUpNobody(value, waiters, rows) == [value |-> value, rows |-> rows]

\* Semaphore._wake_up_next(): hand a slot to the first queued task whose
\* future is unresolved, if there is one. Yields the new value and tasks.
WakeUpNext(value, waiters, rows) ==
  IF Pending(waiters, rows) = {}
    THEN [value |-> value, rows |-> rows]
    ELSE [value |-> value - 1,
          rows  |-> [rows EXCEPT ![waiters[FirstPending(waiters, rows)]].pc = "woken"]]

\* Variant of Release that leaves the slot taken.
ReleaseNothing(value, waiters, rows) == [value |-> value, rows |-> rows]

\* Semaphore.release(), run by `async with sem` on exit.
Release(value, waiters, rows) == WakeUpNext(value + 1, waiters, rows)

Remove(seq, x) == SelectSeq(seq, LAMBDA y : y # x)

\* ---------------------------------------------------------- _async_retry
\* `while attempt <= retries`
LoopTest(attempt, retries) == attempt <= retries

\* Variant of Exhausted that notices the exhaustion one attempt late, so
\* that the last failed attempt is followed by a wait.
ExhaustedLate(attempt, retries) == attempt = retries + 1

\* Variant of Exhausted that gives up one attempt early.
ExhaustedEarly(attempt, retries) == attempt = retries - 1

\* `if attempt == retries`: the failed attempt was the last one allowed.
Exhausted(attempt, retries) == attempt = retries

\* `attempt += 1`
NextAttempt(attempt) == attempt + 1

\* Variant of LogWarning that logs nothing.
LogWarningSilent(c) == c

\* logger.warning("Attempt %s failed: %s — retrying in %.2fs", ...): one
\* more warning record of the call.
LogWarning(c) == [c EXCEPT !.warnings = @ + 1]

\* logger.error("Exhausted retries after %s attempts: %s", ...): one more
\* error record of the call.
LogError(c) == [c EXCEPT !.errors = @ + 1]

\* Variant of LastExc that keeps the error of the first attempt.
LastExcFirst(attempt) == << "attempt", 0 >>

\* `last_exc = exc`: the error of the attempt that has just failed.
LastExc(attempt) == << "attempt", attempt >>

\* Waits are counted in ticks fine enough for every jittered delay to be
\* a whole number.
TicksPerSecond == JitterDen * RandSteps

RandomDraws == 0..(RandSteps - 1)

\* Variant of Delay without the cap.
DelayUncapped(attempt) == BaseDelay * (2 ^ attempt)

\* delay = min(max_delay, base_delay * (2 ** attempt)), in seconds.
Delay(attempt) == Min(MaxDelay, BaseDelay * (2 ^ attempt))

\* jitter_offset = (2 * random - 1.0) * jitter * delay with random =
\* u / RandSteps, in ticks.
JitterOffset(delay, u) == (2 * u - RandSteps) * delay

\* sleep_for = max(0.0, delay + jitter_offset), in ticks.
SleepFor(delay, u) == Max(0, delay * TicksPerSecond + JitterOffset(delay, u))

Finished(c) == c.pc \in {"returned", "raised", "cancelled"}

\* Variant of KeepsLoop in which a waiting call does not yield (a blocking
\* sleep).
KeepsLoopWhileSleeping(c) == c.pc = "sleeping"

\* Whether the call task c, as it stands, keeps the event loop to itself:
\* never, since `await asyncio.sleep` and `await Runner.run` both suspend
\* the coroutine and give the loop back.
KeepsLoop(c) == FALSE

\* The loop can run a step of the task `me` (a call, or anything else for
\* a row task or amain): no other call keeps it.
LoopFree(me) == \A d \in Calls \ {me} : ~KeepsLoop(call[d])

NotACall == << 0, "none" >>

\* on_task and off_task, as asyncio.create_task leaves them.
NewCall == [NoCall EXCEPT !.pc = "created"]

LaunchCalls(calls, i) ==
  [calls EXCEPT ![<< i, "on" >>] = NewCall, ![<< i, "off" >>] = NewCall]

\* call_agent's first run: without Runner or q_a_agent it raises at once
\* and _async_retry is never entered.
CallUnavailable(i, b) ==
  /\ ~loop_closed
  /\ LoopFree(<< i, b >>)
  /\ call[<< i, b >>].pc = "created"
  /\ ~deps_ok
  /\ call' = [call EXCEPT ![<< i, b >>].pc = "raised",
                          ![<< i, b >>].exc = << "RuntimeError" >>]
  /\ UNCHANGED << args, deps_ok, main_pc, ret, n, max_conc, sem_value, sem_waiters,
                  row, done_q, results, completed, progress, output, loop_closed, fs, df >>

\* call_agent's first run: _async_retry starts with attempt = 0 and runs up
\* to the first `await coro_factory()`; were the loop test false at once,
\* `raise last_exc` would raise with last_exc = None.
CallFirstAttempt(i, b) ==
  /\ ~loop_closed
  /\ LoopFree(<< i, b >>)
  /\ call[<< i, b >>].pc = "created"
  /\ deps_ok
  /\ call' = IF LoopTest(0, args.retries)
               THEN [call EXCEPT ![<< i, b >>].pc = "calling",
                                 ![<< i, b >>].attempt = 0,
                                 ![<< i, b >>].calls = 1]
               ELSE [call EXCEPT ![<< i, b >>].pc = "raised",
                                 ![<< i, b >>].exc = << "TypeError" >>]
  /\ UNCHANGED << args, deps_ok, main_pc, ret, n, max_conc, sem_value, sem_waiters,
                  row, done_q, results, completed, progress, output, loop_closed, fs, df >>

\* Runner.run returns: _async_retry returns its result, the task is done.
AttemptReturns(i, b, shape) ==
  /\ ~loop_closed
  /\ LoopFree(<< i, b >>)
  /\ call[<< i, b >>].pc = "calling"
  /\ call' = [call EXCEPT ![<< i, b >>].pc = "returned",
                          ![<< i, b >>].out = ReturnedObject(i, b, shape)]
  /\ UNCHANGED << args, deps_ok, main_pc, ret, n, max_conc, sem_value, sem_waiters,
                  row, done_q, results, completed, progress, output, loop_closed, fs, df >>

\* Runner.run raises on the last attempt: log an error, raise last_exc.
AttemptFailsFinal(i, b) ==
  /\ ~loop_closed
  /\ LoopFree(<< i, b >>)
  /\ call[<< i, b >>].pc = "calling"
  /\ Exhausted(call[<< i, b >>].attempt, args.retries)
  /\ call' = [call EXCEPT ![<< i, b >>] =
                 LogError([@ EXCEPT !.pc = "raised",
                                    !.exc = LastExc(call[<< i, b >>].attempt)])]
  /\ UNCHANGED << args, deps_ok, main_pc, ret, n, max_conc, sem_value, sem_waiters,
                  row, done_q, results, completed, progress, output, loop_closed, fs, df >>

\* Runner.run raises on an earlier attempt: compute the wait with the
\* random draw u, log a warning, start the sleep.
AttemptFailsRetry(i, b, u) ==
  /\ ~loop_closed
  /\ LoopFree(<< i, b >>)
  /\ call[<< i, b >>].pc = "calling"
  /\ ~Exhausted(call[<< i, b >>].attempt, args.retries)
  /\ call' = [call EXCEPT ![<< i, b >>] =
                 LogWarning([@ EXCEPT !.pc = "sleeping",
                                      !.exc = LastExc(call[<< i, b >>].attempt),
                                      !.sleeps = @ + 1,
                                      !.sleep_for =
                                        SleepFor(Delay(call[<< i, b >>].attempt), u)])]
  /\ UNCHANGED << args, deps_ok, main_pc, ret, n, max_conc, sem_value, sem_waiters,
                  row, done_q, results, completed, progress, output, loop_closed, fs, df >>

\* asyncio.sleep is over: attempt += 1; while the loop test holds the unit
\* of work is called again, otherwise last_exc is raised.
BackoffEnds(i, b) ==
  /\ ~loop_closed
  /\ LoopFree(<< i, b >>)
  /\ call[<< i, b >>].pc = "sleeping"
  /\ call' = IF LoopTest(NextAttempt(call[<< i, b >>].attempt), args.retries)
               THEN [call EXCEPT ![<< i, b >>].pc = "calling",
                                 ![<< i, b >>].attempt = NextAttempt(@),
                                 ![<< i, b >>].calls = @ + 1,
                                 ![<< i, b >>].sleep_for = 0]
               ELSE [call EXCEPT ![<< i, b >>].pc = "raised",
                                 ![<< i, b >>].attempt = NextAttempt(@),
                                 ![<< i, b >>].sleep_for = 0]
  /\ UNCHANGED << args, deps_ok, main_pc, ret, n, max_conc, sem_value, sem_waiters,
                  row, done_q, results, completed, progress, output, loop_closed, fs, df >>

\* ------------------------------------------------------------- process_row
\* First run of a row task, semaphore free: take the slot, create both
\* call tasks, suspend in gather.
RowEnterGate(i) ==
  /\ ~loop_closed
  /\ LoopFree(NotACall)
  /\ row[i].pc = "created"
  /\ ~Locked(sem_value, sem_waiters)
  /\ sem_value' = sem_value - 1
  /\ row' = [row EXCEPT ![i].pc = "gather"]
  /\ call' = LaunchCalls(call, i)
  /\ UNCHANGED << args, deps_ok, main_pc, ret, n, max_conc, sem_waiters,
                  done_q, results, completed, progress, output, loop_closed, fs, df >>

\* First run of a row task, semaphore locked: queue up in sem.acquire.
RowBlock(i) ==
  /\ ~loop_closed
  /\ LoopFree(NotACall)
  /\ row[i].pc = "created"
  /\ Locked(sem_value, sem_waiters)
  /\ sem_waiters' = Append(sem_waiters, i)
  /\ row' = [row EXCEPT ![i].pc = "waiting"]
  /\ UNCHANGED << args, deps_ok, main_pc, ret, n, max_conc, sem_value, call,
                  done_q, results, completed, progress, output, loop_closed, fs, df >>

\* A woken row task resumes in sem.acquire: it leaves the queue, passes a
\* remaining free slot on, creates both call tasks, suspends in gather.
RowWake(i) ==
  /\ ~loop_closed
  /\ LoopFree(NotACall)
  /\ row[i].pc = "woken"
  /\ LET ws  == Remove(sem_waiters, i)
         nxt == IF sem_value > 0
                  THEN WakeUpNext(sem_value, ws, row)
                  ELSE [value |-> sem_value, rows |-> row]
     IN /\ sem_waiters' = ws
        /\ sem_value' = nxt.value
        /\ row' = [nxt.rows EXCEPT ![i].pc = "gather"]
  /\ call' = LaunchCalls(call, i)
  /\ UNCHANGED << args, deps_ok, main_pc, ret, n, max_conc,
                  done_q, results, completed, progress, output, loop_closed, fs, df >>

\* Variant of GatherRaised in which a raised call of any row fails the
\* gather of every row.
GatherRaisedAnyRow(calls, i) ==
  \E j \in Rows, b \in Branches : calls[<< j, b >>].pc = "raised"

\* gather(on_task, off_task) raises as soon as one of the two has raised.
GatherRaised(calls, i) == \E b \in Branches : calls[<< i, b >>].pc = "raised"

\* gather returns both results once both tasks have returned.
GatherReturned(calls, i) == \A b \in Branches : calls[<< i, b >>].pc = "returned"

\* Variant of GatherSettles in which a gather that raises cancels the
\* calls of the row that are still running (as a task group would).
GatherCancelsSiblings(calls, i) ==
  [c \in Calls |->
     IF c[1] = i /\ calls[c].pc \in {"created", "calling", "sleeping"}
       THEN [calls[c] EXCEPT !.pc = "cancelled", !.sleep_for = 0]
       ELSE calls[c]]

\* What the settling of gather(on_task, off_task) does to the call tasks:
\* nothing; when it raises for the first failure, the other task is left
\* running.
GatherSettles(calls, i) == calls

\* The row task resumes from gather: `async with` releases the slot; then
\* either the exception of gather ends the task, or the record is built
\* and returned. Its completion is queued for as_completed.
RowResume(i) ==
  /\ ~loop_closed
  /\ LoopFree(NotACall)
  /\ row[i].pc = "gather"
  /\ GatherRaised(call, i) \/ GatherReturned(call, i)
  /\ LET rel == Release(sem_value, sem_waiters, row)
         unfinished == { b \in Branches : ~Finished(call[<< i, b >>]) }
     IN /\ sem_value' = rel.value
        /\ row' = [rel.rows EXCEPT
                     ![i] = IF GatherRaised(call, i)
                              THEN [pc |-> "done", kind |-> "exc", rec |-> NullRecord,
                                    unfinished_at_release |-> unfinished]
                              ELSE [pc |-> "done", kind |-> "ok",
                                    rec |-> BuildRecord(call[<< i, "on" >>].out,
                                                        call[<< i, "off" >>].out),
                                    unfinished_at_release |-> unfinished]]
  /\ call' = GatherSettles(call, i)
  /\ done_q' = Append(done_q, i)
  /\ UNCHANGED << args, deps_ok, main_pc, ret, n, max_conc, sem_waiters,
                  results, completed, progress, output, loop_closed, fs, df >>

\* ------------------------------------------------------------------- amain
\* df.head(limit) of a table of t rows.
HeadRows(t, limit) == IF limit = NoLimit THEN t ELSE Min(t, limit[1])

\* A worksheet cell: a number, an empty cell (NaN) or an infinity.
Num(v) == [k |-> "num", v |-> v]
NaN == [k |-> "nan", v |-> 0]
Inf == [k |-> "inf", v |-> 0]

\* df.replace([inf, -inf], nan) then df.fillna(0).
Normalise(cell) == IF cell.k = "num" THEN cell.v ELSE 0

NameColumn == "Function / Process Name"

\* The columns summed into ONSHORE, as line 175 spells them, and the column
\* copied into OFFSHORE.
OnshoreSources == << "ONSHORE TEAMMATE", "ONSHORE CW", "Est. Size- ONSHORE " >>
OffshoreSource == "Est. Size- OFFSHORE"

\* The capacity figures of the three-row example worksheet.
ExampleOnshore(p) == IF p = 1 THEN 5 ELSE IF p = 2 THEN 3 ELSE 0
ExampleOffshore(p) == IF p = 1 THEN 0 ELSE IF p = 2 THEN 2 ELSE 4

\* The worksheets tried. A worksheet has its header row and, for each row
\* position, the cell of each column (the process name is left out of the
\* cells: the derived columns do not read it).
\* The example worksheet: a name column and the two Est. Size columns.
SheetExample ==
  [headers |-> {NameColumn, "Est. Size- ONSHORE", "Est. Size- OFFSHORE"},
   cells   |-> [p \in Rows |->
                  [c \in {"Est. Size- ONSHORE", "Est. Size- OFFSHORE"} |->
                     IF c = "Est. Size- ONSHORE" THEN Num(ExampleOnshore(p))
                                                ELSE Num(ExampleOffshore(p))]]]

\* A worksheet with the three onshore columns spelt as line 175 expects
\* them, an empty cell and an infinite cell among them.
SheetExpected ==
  [headers |-> {NameColumn, "ONSHORE TEAMMATE", "ONSHORE CW", "Est. Size- ONSHORE ",
                "Est. Size- OFFSHORE"},
   cells   |-> [p \in Rows |->
                  [c \in {"ONSHORE TEAMMATE", "ONSHORE CW", "Est. Size- ONSHORE ",
                          "Est. Size- OFFSHORE"} |->
                     IF c = "ONSHORE TEAMMATE" THEN Num(p)
                     ELSE IF c = "ONSHORE CW" THEN (IF p = 1 THEN NaN ELSE Num(1))
                     ELSE IF c = "Est. Size- ONSHORE "
                       THEN (IF p = 2 THEN Inf ELSE Num(ExampleOnshore(p)))
                     ELSE Num(ExampleOffshore(p))]]]

\* A worksheet with the name column only.
SheetBare == [headers |-> {NameColumn}, cells |-> [p \in Rows |-> << >>]]

RECURSIVE SumCells(_, _)
\* df[cols].sum(axis=1) for one row: the sum of its normalised cells in cols.
SumCells(cells, cols) ==
  IF cols = << >> THEN 0
  ELSE Normalise(cells[cols[1]]) + SumCells(cells, Tail(cols))

\* onshore_cols: the onshore source columns the worksheet has.
OnshoreCols(headers) == SelectSeq(OnshoreSources, LAMBDA c : c \in headers)

\* Lines 171-181: the first k rows of the worksheet with the cells
\* normalised and the derived columns ONSHORE and OFFSHORE added.
LoadFrame(sheet, k) ==
  [headers |-> sheet.headers \cup {"ONSHORE", "OFFSHORE"},
   rows |-> [p \in 1..k |->
              [cells    |-> [c \in DOMAIN sheet.cells[p] |-> Normalise(sheet.cells[p][c])],
               ONSHORE  |-> SumCells(sheet.cells[p], OnshoreCols(sheet.headers)),
               OFFSHORE |-> IF OffshoreSource \in sheet.headers
                              THEN Normalise(sheet.cells[p][OffshoreSource]) ELSE 0]]]

\* An output row no input row stands behind (pd.concat fills it with NaN).
NoInputRow == [cells |-> << >>, ONSHORE |-> 0, OFFSHORE |-> 0]

\* Variant of ResultOf that builds the record from whatever the two calls
\* have returned, also when awaiting the row task raised.
ResultOfPartial(rows, i) ==
  [task |-> i, rec |-> BuildRecord(call[<< i, "on" >>].out, call[<< i, "off" >>].out)]

\* What the collection loop appends for the finished row task i: its
\* record, or the all-null record when awaiting it raised. `task` names
\* the row task the record was awaited from.
ResultOf(rows, i) ==
  [task |-> i, rec |-> IF rows[i].kind = "ok" THEN rows[i].rec ELSE NullRecord]

\* Variant of Collected that takes the queued completions in row order.
CollectedInRowOrder(q, rows) ==
  LET done == { q[j] : j \in 1..Len(q) }
      RECURSIVE Asc(_)
      Asc(i) == IF i > MaxRows THEN << >>
                ELSE (IF i \in done THEN << ResultOf(rows, i) >> ELSE << >>) \o Asc(i + 1)
  IN Asc(1)

\* Variant of Collected that appends nothing for a row task that raised.
CollectedOkOnly(q, rows) ==
  LET ok == SelectSeq(q, LAMBDA i : rows[i].kind = "ok")
  IN [j \in 1..Len(ok) |-> ResultOf(rows, ok[j])]

\* The loop body run over every queued completion, in queue order.
Collected(q, rows) == [j \in 1..Len(q) |-> ResultOf(rows, q[j])]

\* Variant of ProgressLines that logs one message for the completions
\* taken together.
ProgressLinesOnce(c, k, total) == << << c + k, total >> >>

\* The progress messages for the completions c+1 .. c+k of `total`.
ProgressLines(c, k, total) == [j \in 1..k |-> << c + j, total >>]

\* pd.concat([df.reset_index(drop=True), pd.DataFrame(results)], axis=1):
\* the two frames are joined on their positions 0..len-1; a position one
\* frame lacks is filled with NaN. src is the input row of the position
\* and orig its columns.
Concat(frame_rows, res) ==
  [p \in 1..Max(Len(frame_rows), Len(res)) |->
     [src  |-> IF p <= Len(frame_rows) THEN p ELSE 0,
      orig |-> IF p <= Len(frame_rows) THEN frame_rows[p] ELSE NoInputRow,
      task |-> IF p <= Len(res) THEN res[p].task ELSE 0,
      rec  |-> IF p <= Len(res) THEN res[p].rec ELSE NullRecord]]

\* The columns of the joined table: those of df, and the keys of the
\* result records when there is any.
ConcatColumns(headers, res) ==
  headers \cup UNION { DOMAIN res[j].rec : j \in 1..Len(res) }

\* Lines 217-230: build the output table, create the directory, write the
\* worksheet. os.makedirs raising ends amain by that exception; a failed
\* write is caught and turned into the error code.
Finish(frame, res, dir_ok, write_ok) ==
  /\ main_pc' = IF dir_ok THEN "returned" ELSE "raised"
  /\ ret' = IF ~dir_ok THEN NoCode
            ELSE IF write_ok THEN << SuccessCode >> ELSE << WriteErrorCode >>
  /\ output' = IF dir_ok /\ write_ok
                 THEN [written |-> TRUE,
                       columns |-> ConcatColumns(frame.headers, res),
                       rows |-> Concat(frame.rows, res)]
                 ELSE output
  /\ fs' = [input |-> "read",
            dir   |-> IF dir_ok THEN "ok" ELSE "failed",
            write |-> IF ~dir_ok THEN "unknown" ELSE IF write_ok THEN "ok" ELSE "failed"]

\* The input path does not exist.
AmainInputMissing ==
  /\ main_pc = "start"
  /\ main_pc' = "returned"
  /\ ret' = << InputErrorCode >>
  /\ fs' = [fs EXCEPT !.input = "missing"]
  /\ UNCHANGED << args, deps_ok, n, max_conc, sem_value, sem_waiters, row, call,
                  done_q, results, completed, progress, output, loop_closed, df >>

\* pd.read_excel raises.
AmainReadFails ==
  /\ main_pc = "start"
  /\ main_pc' = "returned"
  /\ ret' = << InputErrorCode >>
  /\ fs' = [fs EXCEPT !.input = "unreadable"]
  /\ UNCHANGED << args, deps_ok, n, max_conc, sem_value, sem_waiters, row, call,
                  done_q, results, completed, progress, output, loop_closed, df >>

\* The worksheet of t rows is read and cut to the limit; the semaphore and
\* one task per row are created; amain suspends in the collection loop.
AmainLaunch(sheet, t, limit) ==
  /\ main_pc = "start"
  /\ HeadRows(t, limit) > 0
  /\ df' = LoadFrame(sheet, HeadRows(t, limit))
  /\ n' = HeadRows(t, limit)
  /\ max_conc' = GateSize(args.max_concurrency)
  /\ sem_value' = GateSize(args.max_concurrency)
  /\ row' = [i \in Rows |-> IF i <= HeadRows(t, limit)
                              THEN [NoRow EXCEPT !.pc = "created"] ELSE NoRow]
  /\ main_pc' = "collect"
  /\ fs' = [fs EXCEPT !.input = "read"]
  /\ UNCHANGED << args, deps_ok, ret, sem_waiters, call, done_q, results,
                  completed, progress, output, loop_closed >>

\* No row is left after the limit: as_completed yields nothing and amain
\* runs on to the write without suspending.
AmainEmpty(sheet, t, limit, dir_ok, write_ok) ==
  /\ main_pc = "start"
  /\ HeadRows(t, limit) = 0
  /\ df' = LoadFrame(sheet, 0)
  /\ n' = 0
  /\ max_conc' = GateSize(args.max_concurrency)
  /\ sem_value' = GateSize(args.max_concurrency)
  /\ Finish(df', results, dir_ok, write_ok)
  /\ UNCHANGED << args, deps_ok, sem_waiters, row, call, done_q, results,
                  completed, progress, loop_closed >>

\* amain resumes in the collection loop with completions queued and takes
\* them all; rows are still outstanding, so it suspends again.
CollectSome ==
  /\ main_pc = "collect"
  /\ LoopFree(NotACall)
  /\ done_q # << >>
  /\ completed + Len(done_q) < n
  /\ results' = results \o Collected(done_q, row)
  /\ completed' = completed + Len(done_q)
  /\ progress' = progress \o ProgressLines(completed, Len(done_q), n)
  /\ done_q' = << >>
  /\ UNCHANGED << args, deps_ok, main_pc, ret, n, max_conc, sem_value, sem_waiters,
                  row, call, output, loop_closed, fs, df >>

\* amain takes the last completions: the loop ends and amain runs on to
\* the write and its return without suspending.
CollectLast(dir_ok, write_ok) ==
  /\ main_pc = "collect"
  /\ LoopFree(NotACall)
  /\ done_q # << >>
  /\ completed + Len(done_q) = n
  /\ results' = results \o Collected(done_q, row)
  /\ completed' = completed + Len(done_q)
  /\ progress' = progress \o ProgressLines(completed, Len(done_q), n)
  /\ done_q' = << >>
  /\ Finish(df, results', dir_ok, write_ok)
  /\ UNCHANGED << args, deps_ok, n, max_conc, sem_value, sem_waiters,
                  row, call, loop_closed, df >>

\* ------------------------------------------------------------- asyncio.run
Cancel(c) == IF c.pc \in {"created", "calling", "sleeping"}
               THEN [c EXCEPT !.pc = "cancelled", !.sleep_for = 0] ELSE c

\* main(): once amain has ended, asyncio.run cancels the tasks that are
\* still pending and closes the loop.
Shutdown ==
  /\ main_pc \in {"returned", "raised"}
  /\ ~loop_closed
  /\ loop_closed' = TRUE
  /\ call' = [c \in Calls |-> Cancel(call[c])]
  /\ UNCHANGED << args, deps_ok, main_pc, ret, n, max_conc, sem_value, sem_waiters,
                  row, done_q, results, completed, progress, output, fs, df >>

Next ==
  \/ AmainInputMissing
  \/ AmainReadFails
  \/ \E t \in 0..MaxRows, limit \in Limits : AmainLaunch(SheetExpected, t, limit)
  \/ \E t \in 0..MaxRows, limit \in Limits, dir_ok \in BOOLEAN, write_ok \in BOOLEAN :
        AmainEmpty(SheetExpected, t, limit, dir_ok, write_ok)
  \/ \E i \in Rows : RowEnterGate(i)
  \/ \E i \in Rows : RowBlock(i)
  \/ \E i \in Rows : RowWake(i)
  \/ \E i \in Rows : RowResume(i)
  \/ \E i \in Rows, b \in Branches : CallUnavailable(i, b)
  \/ \E i \in Rows, b \in Branches : CallFirstAttempt(i, b)
  \/ \E i \in Rows, b \in Branches, shape \in Shapes : AttemptReturns(i, b, shape)
  \/ \E i \in Rows, b \in Branches : AttemptFailsFinal(i, b)
  \/ \E i \in Rows, b \in Branches, u \in RandomDraws : AttemptFailsRetry(i, b, u)
  \/ \E i \in Rows, b \in Branches : BackoffEnds(i, b)
  \/ CollectSome
  \/ \E dir_ok \in BOOLEAN, write_ok \in BOOLEAN : CollectLast(dir_ok, write_ok)
  \/ Shutdown

Spec == Init /\ [][Next]_vars

\* ------------------------------------------- the two calls of a single row
\* A run with one row whose task has entered the semaphore and created
\* its two call tasks, for any --retries up to MaxBackoffRetries; only the
\* two calls take steps.
RetryInit ==
  /\ args \in [max_concurrency : {MinConcurrency}, retries : 0..MaxBackoffRetries]
  /\ deps_ok = TRUE
  /\ main_pc = "collect"
  /\ ret = NoCode
  /\ n = 1
  /\ max_conc = GateSize(MinConcurrency)
  /\ sem_value = GateSize(MinConcurrency) - 1
  /\ sem_waiters = << >>
  /\ row = [i \in Rows |-> IF i = 1 THEN [NoRow EXCEPT !.pc = "gather"] ELSE NoRow]
  /\ call = LaunchCalls([c \in Calls |-> NoCall], 1)
  /\ done_q = << >>
  /\ results = << >>
  /\ completed = 0
  /\ progress = << >>
  /\ output = NoOutput
  /\ loop_closed = FALSE
  /\ fs = [input |-> "read", dir |-> "unknown", write |-> "unknown"]
  /\ df = LoadFrame(SheetExpected, 1)

RetryNext ==
  \/ \E b \in Branches : CallFirstAttempt(1, b)
  \/ \E b \in Branches, shape \in Shapes : AttemptReturns(1, b, shape)
  \/ \E b \in Branches : AttemptFailsFinal(1, b)
  \/ \E b \in Branches, u \in RandomDraws : AttemptFailsRetry(1, b, u)
  \/ \E b \in Branches : BackoffEnds(1, b)

RetrySpec == RetryInit /\ [][RetryNext]_vars

FullShape == [has_final |-> TRUE, fields |-> AttrSet]

\* ------------------------------------------- runs whose every call succeeds
\* Runs over each of the worksheets, with the dependencies importable, a
\* positive concurrency, and an executor whose every call returns an
\* object carrying all seven fields; the output directory can be made and
\* the file written.
Worksheets == {SheetExample, SheetExpected, SheetBare}

E2EInit ==
  /\ Init
  /\ deps_ok
  /\ args.max_concurrency >= MinConcurrency
  /\ args.retries = 0

E2ENext ==
  \/ \E sheet \in Worksheets, t \in 0..MaxRows : AmainLaunch(sheet, t, NoLimit)
  \/ \E sheet \in Worksheets : AmainEmpty(sheet, 0, NoLimit, TRUE, TRUE)
  \/ \E i \in Rows : RowEnterGate(i)
  \/ \E i \in Rows : RowBlock(i)
  \/ \E i \in Rows : RowWake(i)
  \/ \E i \in Rows : RowResume(i)
  \/ \E i \in Rows, b \in Branches : CallFirstAttempt(i, b)
  \/ \E i \in Rows, b \in Branches : AttemptReturns(i, b, FullShape)
  \/ CollectSome
  \/ CollectLast(TRUE, TRUE)
  \/ Shutdown

E2ESpec == E2EInit /\ [][E2ENext]_vars

\* ------------------------------------------------- runs under fair scheduling
\* What the event loop guarantees a row task: once it is ready to run (just
\* created, woken in acquire, or its gather settled) it is run.
RowStep(i) == RowEnterGate(i) \/ RowBlock(i) \/ RowWake(i) \/ RowResume(i)

\* What the event loop guarantees a call task: its first run, and its
\* resumption when asyncio.sleep is over.
CallRuns(i, b) == CallUnavailable(i, b) \/ CallFirstAttempt(i, b) \/ BackoffEnds(i, b)

\* An outstanding attempt of Runner.run comes to an end, by returning or by
\* raising.
AttemptEnds(i, b) ==
  AttemptReturns(i, b, FullShape) \/ AttemptFailsFinal(i, b) \/ AttemptFailsRetry(i, b, 0)

\* amain is resumed when completions are queued for as_completed.
CollectStep == CollectSome \/ \E dir_ok \in BOOLEAN, write_ok \in BOOLEAN : CollectLast(dir_ok, write_ok)

\* The runs of Spec over worksheets of one row or more, with one shape of
\* returned object and one random draw.
LiveNext ==
  \/ \E t \in 1..MaxRows : AmainLaunch(SheetExpected, t, NoLimit)
  \/ \E i \in Rows : RowStep(i)
  \/ \E i \in Rows, b \in Branches : CallRuns(i, b)
  \/ \E i \in Rows, b \in Branches : AttemptEnds(i, b)
  \/ CollectStep
  \/ Shutdown

\* Every ready task is run, and every attempt of a remote call ends.
Fairness ==
  /\ \A i \in Rows : WF_vars(RowStep(i))
  /\ \A i \in Rows, b \in Branches : WF_vars(CallRuns(i, b))
  /\ \A i \in Rows, b \in Branches : WF_vars(AttemptEnds(i, b))
  /\ WF_vars(CollectStep)

LiveSpec == Init /\ [][LiveNext]_vars /\ Fairness

\* ================================================================== claims
Submitted == { i \in Rows : row[i].pc # "none" }

InsideGate == { i \in Rows : row[i].pc = "gather" }

\* call_agent invocations that have started and have not finished.
InFlight == { c \in Calls : call[c].pc \in {"calling", "sleeping"} }

AmainEnded == main_pc \in {"returned", "raised"}

\* C1: in the written output, the result columns of position p are the
\* record of the row task created for input row p.
C1_RowAligned ==
  output.written =>
    \A p \in 1..Len(output.rows) : output.rows[p].task = output.rows[p].src

\* C2: a call never invokes its unit of work more than retries + 1 times,
\* and a call that raised because every attempt failed invoked it exactly
\* retries + 1 times.
C2_AttemptsExact ==
  \A c \in Calls :
    /\ call[c].calls <= args.retries + 1
    /\ (call[c].pc = "raised" /\ call[c].exc[1] = "attempt")
         => call[c].calls = args.retries + 1

C2_Witness ==
  \E c \in Calls :
    /\ args.retries = MaxRetries
    /\ call[c].pc = "raised"
    /\ call[c].exc = << "attempt", MaxRetries >>
    /\ call[c].calls = MaxRetries + 1

\* C3: with max_concurrency = k >= 1, at most k row tasks are inside the
\* semaphore-guarded section.
C3_GateBound ==
  args.max_concurrency >= 1 => Cardinality(InsideGate) <= args.max_concurrency

C3_Witness ==
  /\ args.max_concurrency = 1
  /\ Cardinality(InsideGate) = 1
  /\ \E i \in Rows : row[i].pc = "waiting"
  /\ \E c \in Calls : call[c].pc = "sleeping"

\* C4: when a row task has released its slot, both its calls had finished.
C4_ReleaseAfterBothCalls ==
  \A i \in Rows : row[i].pc = "done" => row[i].unfinished_at_release = {}

\* C5: with max_concurrency = k, at most 2 * k calls are in flight.
C5_CallsBounded ==
  args.max_concurrency >= 1 => Cardinality(InFlight) <= 2 * args.max_concurrency

\* C6: the record collected for a row one of whose calls raised is null in
\* all fourteen columns, whatever the other call returned, in the results
\* list and in the written output.
C6_FailedRowAllNull ==
  /\ \A j \in 1..Len(results) :
       (\E b \in Branches : call[<< results[j].task, b >>].pc = "raised")
         => \A c \in ColumnNames : results[j].rec[c] = Null
  /\ \A p \in 1..Len(output.rows) :
       (output.rows[p].task # 0
          /\ \E b \in Branches : call[<< output.rows[p].task, b >>].pc = "raised")
         => \A c \in ColumnNames : output.rows[p].rec[c] = Null

C6_Witness ==
  \E j \in 1..Len(results) :
    /\ call[<< results[j].task, "on" >>].pc = "raised"
    /\ call[<< results[j].task, "on" >>].exc[1] = "attempt"
    /\ call[<< results[j].task, "off" >>].pc = "returned"
    /\ call[<< results[j].task, "off" >>].out.fields = AttrSet
    /\ output.written

\* C7: when the collection loop has ended, one record per submitted row
\* task has been collected, and the written output has as many rows.
C7_OneResultPerRow ==
  (AmainEnded /\ fs.input = "read") =>
    /\ Len(results) = Cardinality(Submitted)
    /\ completed = Cardinality(Submitted)
    /\ \A i \in Submitted : Cardinality({ j \in 1..Len(results) : results[j].task = i }) = 1
    /\ output.written => Len(output.rows) = Cardinality(Submitted)

C7_Witness ==
  /\ AmainEnded
  /\ output.written
  /\ Cardinality(Submitted) = MaxRows
  /\ \E i \in Submitted : row[i].kind = "exc"
  /\ \E i \in Submitted : row[i].kind = "ok"

\* C8: a failing row does not abort the batch: amain ends before the write
\* only by os.makedirs raising; when it has ended every row task is done;
\* a row whose two calls returned keeps the record built from them; and
\* when the write succeeds the output is written and amain returns 0.
C8_RowFailureNotFatal ==
  /\ (main_pc = "raised") => fs.dir = "failed"
  /\ (AmainEnded /\ fs.input = "read") => \A i \in Submitted : row[i].pc = "done"
  /\ \A j \in 1..Len(results) :
       (\A b \in Branches : call[<< results[j].task, b >>].pc = "returned")
         => results[j].rec = BuildRecord(call[<< results[j].task, "on" >>].out,
                                         call[<< results[j].task, "off" >>].out)
  /\ fs.write = "ok" => (ret = << SuccessCode >> /\ output.written)

C8_Witness ==
  /\ fs.write = "ok"
  /\ ret = << SuccessCode >>
  /\ \E j \in 1..Len(results) :
       /\ \A b \in Branches : call[<< results[j].task, b >>].out = ReturnedObject(results[j].task, b, FullShape)
       /\ results[j].rec # NullRecord
  /\ \E i \in Submitted : row[i].kind = "exc" /\ call[<< i, "on" >>].exc = << "attempt", MaxRetries >>

\* C9: when the input is missing or cannot be read, amain returns 2 and no
\* row task, semaphore slot, call or output exists.
C9_InputFailureStopsRun ==
  fs.input \in {"missing", "unreadable"} =>
    /\ ret = << 2 >>
    /\ main_pc = "returned"
    /\ Submitted = {}
    /\ max_conc = 0 /\ sem_value = 0 /\ sem_waiters = << >>
    /\ \A c \in Calls : call[c].pc = "none" /\ call[c].calls = 0
    /\ results = << >>
    /\ ~output.written

C9_Witness ==
  /\ fs.input = "unreadable"
  /\ ret = << 2 >>
  /\ loop_closed

\* C10: amain returns 0 exactly when the input was read and the output was
\* written; it returns a non-zero code when the input is missing or
\* unreadable and when the write fails; and the write fails only after
\* every row task has completed and been collected.
C10_ReturnCodes ==
  /\ (ret = << 0 >>) <=> (fs.input = "read" /\ fs.write = "ok")
  /\ (ret = << 0 >>) => output.written
  /\ fs.input \in {"missing", "unreadable"} => (ret # NoCode /\ ret[1] # 0)
  /\ fs.write = "failed" =>
       /\ ret # NoCode /\ ret[1] # 0
       /\ ~output.written
       /\ \A i \in Submitted : row[i].pc = "done"
       /\ completed = Cardinality(Submitted)

C10_Witness ==
  /\ fs.write = "failed"
  /\ ret = << 2 >>
  /\ Cardinality(Submitted) = MaxRows
  /\ \E i \in Submitted : row[i].kind = "exc"

\* The returned object a result column of row task i is read from.
SourceObject(i, c) == call[<< i, ColumnSpec(c).branch >>].out

HasField(o, attr) == o.has_final /\ attr \in o.fields

\* C11: a row task whose two calls returned ends with a record, not an
\* exception; a column of that record is null exactly when the returned
\* object it is read from lacks the attribute (or has no final_output), and
\* otherwise holds the value of that attribute of that row and call; the
\* record is collected unchanged.
C11_MissingFieldsOnlyNull ==
  /\ \A i \in Rows :
       (row[i].pc = "done" /\ \A b \in Branches : call[<< i, b >>].pc = "returned") =>
         /\ row[i].kind = "ok"
         /\ \A c \in ColumnNames :
              IF HasField(SourceObject(i, c), ColumnSpec(c).attr)
                THEN row[i].rec[c] = << i, ColumnSpec(c).branch, ColumnSpec(c).attr >>
                ELSE row[i].rec[c] = Null
  /\ \A j \in 1..Len(results) :
       row[results[j].task].kind = "ok" => results[j].rec = row[results[j].task].rec

C11_Witness ==
  \E j \in 1..Len(results) :
    LET i == results[j].task IN
      /\ call[<< i, "on" >>].pc = "returned"
      /\ call[<< i, "on" >>].out.fields = AttrSet \ {"online_coursework"}
      /\ call[<< i, "off" >>].pc = "returned"
      /\ ~call[<< i, "off" >>].out.has_final
      /\ results[j].rec["Onshore_High_Scenario_Vectors"] = << i, "on", "high_scenario" >>
      /\ results[j].rec["Onshore_CourseWork"] = Null
      /\ results[j].rec["Offshore_High_Scenario_Vectors"] = Null

\* The exponential delay of the attempt of index i, capped, in seconds.
CappedDelay(i) ==
  IF BaseDelay * (2 ^ i) > MaxDelay THEN MaxDelay ELSE BaseDelay * (2 ^ i)

\* C12: the wait that follows the failed attempt of index i lies within
\* d * (1 - jitter) and d * (1 + jitter) for d = min(max_delay,
\* base_delay * 2^i), and is never negative.
C12_BackoffWithinJitter ==
  \A c \in Calls :
    call[c].pc = "sleeping" =>
      /\ call[c].sleep_for >= 0
      /\ call[c].sleep_for * JitterDen
           >= CappedDelay(call[c].attempt) * (JitterDen - 1) * TicksPerSecond
      /\ call[c].sleep_for * JitterDen
           <= CappedDelay(call[c].attempt) * (JitterDen + 1) * TicksPerSecond

\* A wait well after the cap applies (2^5 > 15), shorter than the capped delay.
C12_Witness ==
  \E c \in Calls :
    /\ call[c].pc = "sleeping"
    /\ call[c].attempt = 5
    /\ call[c].sleep_for < MaxDelay * TicksPerSecond
    /\ call[c].sleep_for > 0

\* C13: while a call waits between two attempts, every other call that
\* exists (its sibling, and the calls of the other rows) can take its next
\* step: start, have its attempt return or fail, or end its own wait; and
\* the waiting call itself can resume.
C13_BackoffSuspendsOnlyCaller ==
  \A c \in Calls :
    (call[c].pc = "sleeping" /\ ~loop_closed) =>
      /\ ENABLED BackoffEnds(c[1], c[2])
      /\ \A d \in Calls \ {c} :
           /\ call[d].pc = "created" =>
                ENABLED (CallFirstAttempt(d[1], d[2]) \/ CallUnavailable(d[1], d[2]))
           /\ call[d].pc = "calling" =>
                /\ ENABLED AttemptReturns(d[1], d[2], FullShape)
                /\ ENABLED (AttemptFailsFinal(d[1], d[2]) \/ AttemptFailsRetry(d[1], d[2], 0))
           /\ call[d].pc = "sleeping" => ENABLED BackoffEnds(d[1], d[2])

C13_Witness ==
  \E c \in Calls, i \in Rows :
    /\ i # c[1]
    /\ call[c].pc = "sleeping"
    /\ call[<< c[1], Other(c[2]) >>].pc = "calling"
    /\ row[i].pc = "gather"
    /\ call[<< i, "on" >>].pc = "created"
    /\ call[<< i, "off" >>].pc = "sleeping"

\* C14: in a run over the example worksheet (columns Function / Process Name,
\* Est. Size- ONSHORE and Est. Size- OFFSHORE) with an executor that always
\* succeeds, the written output has one row per worksheet row, all fourteen
\* result columns of every row are populated, and the derived ONSHORE
\* column equals the Est. Size- ONSHORE column.
C14_EndToEnd ==
  (output.written /\ "Est. Size- ONSHORE" \in df.headers) =>
    /\ Len(output.rows) = Len(df.rows)
    /\ \A p \in 1..Len(output.rows) :
         /\ \A c \in ColumnNames : output.rows[p].rec[c] # Null
         /\ output.rows[p].orig.ONSHORE = output.rows[p].orig.cells["Est. Size- ONSHORE"]

\* C15: every collected record, whether process_row built it or amain
\* substituted it for a failed row, has exactly the same fourteen keys, seven
\* read from the onshore call and seven from the offshore call; so every row
\* of the written output has all columns of the input table and those
\* fourteen.
C15_SameFourteenColumns ==
  /\ Cardinality(ColumnNames) = 14
  /\ \A b \in Branches : Cardinality({ c \in ColumnNames : ColumnSpec(c).branch = b }) = 7
  /\ \A j \in 1..Len(results) : DOMAIN results[j].rec = ColumnNames
  /\ (output.written /\ output.rows # << >>) =>
        /\ output.columns = df.headers \cup ColumnNames
        /\ \A p \in 1..Len(output.rows) : DOMAIN output.rows[p].rec = ColumnNames

C15_Witness ==
  /\ output.written
  /\ \E j, k \in 1..Len(results) :
       /\ row[results[j].task].kind = "ok"
       /\ row[results[k].task].kind = "exc"

\* The row tasks in the order they completed, as far as the run has got:
\* those whose record is collected, then those queued for amain.
CompletionOrder == [j \in 1..Len(results) |-> results[j].task] \o done_q

\* C16: the records are collected in the order the row tasks complete:
\* each completing task goes to the end of the completion order, nothing
\* else changes that order, and the results list follows it.
C16_CollectedInCompletionOrder ==
  [][ /\ \A i \in Rows :
           (row[i].pc # "done" /\ row'[i].pc = "done") =>
              CompletionOrder' = Append(CompletionOrder, i)
      /\ (\A i \in Rows : row[i].pc = "done" <=> row'[i].pc = "done") =>
           CompletionOrder' = CompletionOrder
      /\ \A j \in 1..Len(results') : results'[j].task = CompletionOrder'[j] ]_vars

C16_Witness ==
  /\ Len(results) = 2
  /\ results[1].task = 2
  /\ results[2].task = 1

\* The slots of the semaphore that are taken.
SlotsHeld == max_conc - sem_value

\* The row tasks inside `async with sem`: awaiting their two calls, or
\* handed a slot in sem.acquire and about to create them.
SlotHolders == { i \in Rows : row[i].pc \in {"woken", "gather"} }

\* C17: a slot is held only around the paired calls: every taken slot
\* belongs to a row task that is launching or awaiting its two calls; a row
\* task that has not passed the semaphore holds none and has no call yet,
\* and a row task that has ended, its record built, holds none.
C17_SlotOnlyAroundCalls ==
  /\ SlotsHeld = Cardinality(SlotHolders)
  /\ \A i \in Rows :
       /\ row[i].pc \in {"none", "created", "waiting", "woken"} =>
            \A b \in Branches : call[<< i, b >>].pc = "none"
       /\ row[i].kind # "none" => row[i].pc = "done"
       /\ row[i].pc = "gather" => \A b \in Branches : call[<< i, b >>].pc # "none"

C17_Witness ==
  \E i, j \in Rows :
    /\ row[i].kind = "ok"
    /\ row[j].pc = "created"
    /\ max_conc = 1
    /\ SlotsHeld = 0

\* C18: no timeout is enforced on a call: while an attempt of a call of a
\* row is outstanding (and so for ever, if it never returns), the row keeps
\* its slot of the semaphore, no record of the row is collected, and the
\* output is not written.
C18_HungCallStallsRow ==
  \A c \in Calls :
    call[c].pc = "calling" =>
      /\ row[c[1]].pc = "gather"
      /\ \A j \in 1..Len(results) : results[j].task # c[1]
      /\ ~output.written

\* C19: a call that has used up its retries fails with the error of its
\* last, (retries + 1)-th attempt and hands no result over; a call that
\* returns hands over the result of its first attempt that succeeded (every
\* earlier attempt failed, none was made after it); a call hands a result
\* over only by returning.
C19_LastErrorOrFirstResult ==
  \A c \in Calls :
    /\ (call[c].pc = "raised" /\ deps_ok) =>
         /\ call[c].exc = << "attempt", args.retries >>
         /\ call[c].calls = args.retries + 1
         /\ call[c].out = NoObject
    /\ call[c].pc = "returned" =>
         /\ call[c].out # NoObject
         /\ call[c].out.src = c[1] /\ call[c].out.branch = c[2]
         /\ call[c].calls = call[c].attempt + 1
         /\ call[c].warnings = call[c].attempt
    /\ call[c].pc # "returned" => call[c].out = NoObject

C19_Witness ==
  /\ call[<< 1, "on" >>].pc = "raised"
  /\ call[<< 1, "on" >>].exc = << "attempt", 3 >>
  /\ call[<< 1, "off" >>].pc = "returned"
  /\ call[<< 1, "off" >>].attempt = 2

\* The row tasks that have completed, by returning or by raising.
CompletedRows == { i \in Rows : row[i].pc = "done" }

\* C20: the completed counter starts at 0, counts each completed row task
\* once, by one at a time (the messages show every value from 1 on), never
\* exceeds the number of submitted rows; one progress message is logged per
\* completion, and when the loop is over the last message reports
\* total/total.
C20_CompletedCounter ==
  /\ main_pc = "start" => completed = 0
  /\ completed + Len(done_q) = Cardinality(CompletedRows)
  /\ completed <= Cardinality(Submitted)
  /\ Cardinality(Submitted) = n
  /\ completed = Len(results)
  /\ Len(progress) = completed
  /\ \A j \in 1..Len(progress) : progress[j] = << j, n >>
  /\ (main_pc = "returned" /\ n > 0) => progress[Len(progress)] = << n, n >>

C20_Witness ==
  /\ main_pc = "returned"
  /\ progress = << << 1, 2 >>, << 2, 2 >> >>
  /\ \E i, j \in Rows : row[i].kind = "exc" /\ row[j].kind = "ok"

\* The attempts of a call that have raised so far.
FailedAttempts(c) ==
  IF c.pc \in {"sleeping", "raised"} THEN c.calls
  ELSE IF c.pc \in {"calling", "returned"} THEN c.calls - 1
  ELSE 0

\* C21: _async_retry logs a warning for every failed attempt and an error
\* when the retries are exhausted: the warnings of a call number its failed
\* attempts, and a call that has failed on all retries + 1 attempts has
\* logged retries + 1 warnings and one error.
C21_WarningPerFailedAttempt ==
  \A c \in Calls :
    /\ call[c].pc \in {"calling", "sleeping", "returned", "raised"} =>
         call[c].warnings = FailedAttempts(call[c])
    /\ (call[c].pc = "raised" /\ deps_ok) =>
         (call[c].warnings = args.retries + 1 /\ call[c].errors = 1)

\* C21 as amended: a warning is logged for every failed attempt that is
\* followed by a retry, and the last failed attempt logs the error instead
\* of a warning: a call that has failed on all retries + 1 attempts has
\* logged retries warnings and then one error, after which it logs nothing;
\* each warning comes with the error of the attempt that failed and the
\* wait that starts.
C21_WarningPerRetriedAttempt ==
  /\ [](\A c \in Calls :
          /\ call[c].pc \in {"calling", "sleeping", "returned", "raised"} =>
               /\ call[c].warnings + call[c].errors = FailedAttempts(call[c])
               /\ call[c].warnings = call[c].sleeps
               /\ call[c].errors = (IF call[c].pc = "raised" /\ deps_ok THEN 1 ELSE 0)
          /\ (call[c].pc = "raised" /\ deps_ok) =>
               (call[c].warnings = args.retries /\ call[c].errors = 1))
  /\ [][\A c \in Calls :
          /\ call[c].errors = 1 =>
               (call'[c].warnings = call[c].warnings /\ call'[c].errors = 1)
          /\ call'[c].warnings # call[c].warnings =>
               /\ call'[c].warnings = call[c].warnings + 1
               /\ call'[c].pc = "sleeping"
               /\ call'[c].exc = << "attempt", call[c].attempt >>
               /\ \E u \in RandomDraws :
                    call'[c].sleep_for = SleepFor(Delay(call[c].attempt), u)]_vars

C21_Witness ==
  \E c \in Calls :
    /\ call[c].pc = "raised"
    /\ args.retries = 3
    /\ call[c].warnings = 3
    /\ call[c].errors = 1

\* C22: if every attempt of a remote call comes to an end, the run
\* terminates, for every number of rows, gate size and number of retries:
\* every row task gets into the semaphore, completes and has its record
\* collected, and amain gets to the output step and ends (it writes the
\* file whenever the output directory can be made); no row task is left
\* waiting for the semaphore.
C22_RunTerminates ==
  /\ \A i \in Rows :
       /\ (row[i].pc = "created") ~> (row[i].pc \in {"gather", "done"})
       /\ (row[i].pc = "created") ~> (\E j \in 1..Len(results) : results[j].task = i)
  /\ (main_pc = "collect") ~>
       /\ AmainEnded
       /\ completed = n
       /\ fs.dir # "unknown"
       /\ fs.dir = "ok" => (main_pc = "returned" /\ fs.write # "unknown")

C22_Witness ==
  /\ main_pc = "returned"
  /\ n = MaxRows
  /\ max_conc = MinConcurrency
  /\ output.written
  /\ \E c \in Calls : call[c].sleeps > 0

\* The semaphore exists: amain has got past line 184.
GateCreated == main_pc # "start" /\ fs.input = "read"

\* C23: the slots of the gate are conserved: once the gate exists, the free
\* slots and the row tasks that own a slot (inside the guarded section, or
\* handed the slot and about to enter it) add up to max(1, max_concurrency);
\* a row task whose calls failed gives its slot back as well, so when all
\* row tasks have completed every slot is free.
C23_SlotsConserved ==
  GateCreated =>
    /\ sem_value >= 0
    /\ sem_value + Cardinality(SlotHolders) = Max(1, args.max_concurrency)
    /\ (\A i \in Submitted : row[i].pc = "done") => sem_value = Max(1, args.max_concurrency)

C23_Witness ==
  /\ GateCreated
  /\ n = MaxRows
  /\ \A i \in Submitted : row[i].pc = "done"
  /\ \E i \in Submitted : row[i].kind = "exc"
  /\ sem_value = 2

\* C24: when a call of a row has used up its retries while its sibling is
\* still running, the sibling is never cancelled, and what it returns is
\* discarded: the row's record stays all-null in the results and in the
\* output.
C24_SiblingNeverCancelled ==
  \A i \in Rows, b \in Branches :
    (/\ row[i].kind = "exc"
     /\ call[<< i, Other(b) >>].errors = 1
     /\ b \in row[i].unfinished_at_release) =>
      /\ call[<< i, b >>].pc # "cancelled"
      /\ \A j \in 1..Len(results) : results[j].task = i => results[j].rec = NullRecord
      /\ \A p \in 1..Len(output.rows) : output.rows[p].task = i => output.rows[p].rec = NullRecord

\* C24 as amended: the failure of the row does not cancel the sibling: as
\* long as the event loop runs the sibling can go on with its attempts and
\* waits, and it is cancelled only when the run is over and asyncio.run
\* closes the loop; what it returns is discarded: the row's record stays
\* all-null in the results and in the output.
C24_SiblingRunsUntilShutdown ==
  \A i \in Rows, b \in Branches :
    /\ call[<< i, b >>].pc = "cancelled" => (loop_closed /\ AmainEnded)
    /\ (row[i].kind = "exc" /\ b \in row[i].unfinished_at_release) =>
         /\ (call[<< i, b >>].pc = "calling" /\ ~loop_closed) =>
              /\ ENABLED AttemptReturns(i, b, FullShape)
              /\ ENABLED (AttemptFailsFinal(i, b) \/ AttemptFailsRetry(i, b, 0))
         /\ (call[<< i, b >>].pc = "sleeping" /\ ~loop_closed) => ENABLED BackoffEnds(i, b)
         /\ \A j \in 1..Len(results) : results[j].task = i => results[j].rec = NullRecord
         /\ \A p \in 1..Len(output.rows) :
              output.rows[p].task = i => output.rows[p].rec = NullRecord

C24_Witness ==
  \E i \in Rows, b \in Branches :
    /\ row[i].kind = "exc"
    /\ b \in row[i].unfinished_at_release
    /\ call[<< i, b >>].pc = "returned"
    /\ call[<< i, b >>].sleeps = 1
    /\ call[<< i, b >>].out = ReturnedObject(i, b, FullShape)
    /\ output.written
    /\ \E p \in 1..Len(output.rows) :
         output.rows[p].task = i /\ output.rows[p].rec = NullRecord

\* C25: _async_retry never waits after its last action: a call that has
\* returned at its j-th attempt has made exactly j attempts and j - 1 waits,
\* a call that has used up its retries has made exactly retries waits (and
\* retries + 1 attempts), and a call that has ended is in no wait and
\* starts none.
C25_NoWaitAfterLastAction ==
  /\ [](\A c \in Calls :
          /\ call[c].pc = "returned" =>
               /\ call[c].calls = call[c].attempt + 1
               /\ call[c].sleeps = call[c].calls - 1
               /\ call[c].sleep_for = 0
          /\ (call[c].pc = "raised" /\ deps_ok) =>
               /\ call[c].calls = args.retries + 1
               /\ call[c].sleeps = args.retries
               /\ call[c].sleep_for = 0)
  /\ [][\A c \in Calls :
          call[c].pc \in {"returned", "raised"} =>
            (call'[c].sleeps = call[c].sleeps /\ call'[c].pc # "sleeping")]_vars

C25_Witness ==
  /\ args.retries = 3
  /\ call[<< 1, "on" >>].pc = "raised"
  /\ call[<< 1, "on" >>].sleeps = 3
  /\ call[<< 1, "off" >>].pc = "returned"
  /\ call[<< 1, "off" >>].calls = 3
  /\ call[<< 1, "off" >>].sleeps = 2

\* C26: the gate has max(1, max_concurrency) slots: exactly one when the
\* configured value is 0 or negative, never none; so the configuration
\* blocks no row task for ever: a row task queued for the gate always has a
\* slot owner ahead of it, a free gate always lets a new row task in, and
\* under fair scheduling every row task gets in.
C26_GateAtLeastOne ==
  /\ [](GateCreated =>
          /\ max_conc = (IF args.max_concurrency <= 0 THEN 1 ELSE args.max_concurrency)
          /\ max_conc >= MinConcurrency
          /\ sem_value <= max_conc
          /\ (\E i \in Rows : row[i].pc = "waiting") => SlotHolders # {}
          /\ (SlotHolders = {} /\ sem_waiters = << >>) => sem_value >= 1)
  /\ \A i \in Rows :
       (args.max_concurrency <= 0 /\ row[i].pc = "created") ~> (row[i].pc \in {"gather", "done"})

C26_Witness ==
  /\ args.max_concurrency = -1
  /\ max_conc = 1
  /\ \E i, j \in Rows : row[i].pc = "gather" /\ row[j].pc = "waiting"

====
